---- MODULE Spec2Model ----
(***************************************************************************)
(* Model of dasai-builder:                                                 *)
(*   - adrafruit-translator.py : the SSD1306 emulator, the process-wide    *)
(*     eye geometry, the expression scripts and run(expr);                 *)
(*   - conv3.py / conv.py      : the XBM bitmap codec.                     *)
(*                                                                         *)
(* The canvas (OLED.img) is modelled as the list of cv2 drawing calls      *)
(* applied to it since the last np.zeros: cv2 rasterisation itself is an   *)
(* external collaborator, and two canvases with the same call list hold    *)
(* the same pixels.  A frame is a copy of that list (OLED.display).        *)
(***************************************************************************)
EXTENDS Integers, Sequences, FiniteSets, TLC

VARIABLES left_eye, right_eye, frames, expr, outcome,
          img, white_is_on, data, origin, decoded,
          frame_index, text, parsed

eyeVars == <<left_eye, right_eye, frames, expr, outcome>>
codecVars == <<img, white_is_on, data, origin, decoded>>
emitVars == <<frame_index, text, parsed>>
vars == <<left_eye, right_eye, frames, expr, outcome, img, white_is_on, data, origin, decoded,
          frame_index, text, parsed>>

(***************************************************************************)
(* Bounds                                                                  *)
(***************************************************************************)
\* how many saccade amplitudes (16 px) the eyes may drift from x = 39 / 89
MaxShift == 2
\* how many pixels of an input raster differ from its background
MaxOn == 2
\* by how many bytes a decoder input may be shorter or longer than 1024
MaxLenDelta == 1
\* the largest frame index and the largest first byte of an emitted array
MaxFrameIndex == 3
MaxOffset == 2

(***************************************************************************)
(* adrafruit-translator.py : constants                                     *)
(***************************************************************************)
WHITE == 255
BLACK == 0
ref_w == 40
ref_h == 40
space == 10
corner == 10

left_eye0 == [x |-> 64 - ref_w \div 2 - space \div 2, y |-> 32, w |-> ref_w, h |-> ref_h]
right_eye0 == [x |-> 64 + ref_w \div 2 + space \div 2, y |-> 32, w |-> ref_w, h |-> ref_h]

(***************************************************************************)
(* class OLED: the canvas as a list of cv2 calls                           *)
(***************************************************************************)
cv2_rectangle(x1, y1, x2, y2, color) ==
    [op |-> "rectangle", a |-> <<x1, y1, x2, y2>>, color |-> color]
cv2_circle(cx, cy, r, color) ==
    [op |-> "circle", a |-> <<cx, cy, r>>, color |-> color]
cv2_fillPoly(pts, color) ==
    [op |-> "fillPoly", a |-> pts, color |-> color]
cv2_line(x1, y1, x2, y2, color) ==
    [op |-> "line", a |-> <<x1, y1, x2, y2>>, color |-> color]

\* OLED methods, on the canvas c (OLED.img)
clearDisplay == <<>>

fillRoundRect(c, x, y, w, h, r, color) ==
    c \o << cv2_rectangle(x + r, y, x + w - r, y + h, color),
            cv2_rectangle(x, y + r, x + w, y + h - r, color),
            cv2_circle(x + r, y + r, r, color),
            cv2_circle(x + w - r, y + r, r, color),
            cv2_circle(x + r, y + h - r, r, color),
            cv2_circle(x + w - r, y + h - r, r, color) >>

\* a script's working state s: the two eyes (l, r), the canvas (img) and
\* the frame list (frames); the OLED methods lifted to it
fillTriangle(s, pts, color) == [s EXCEPT !.img = Append(@, cv2_fillPoly(pts, color))]

fillRect(s, x, y, w, h, color) ==
    [s EXCEPT !.img = Append(@, cv2_rectangle(x, y, x + w, y + h, color))]

drawLine(s, x1, y1, x2, y2, color) ==
    [s EXCEPT !.img = Append(@, cv2_line(x1, y1, x2, y2, color))]

fillCircle(s, x, y, r, color) == [s EXCEPT !.img = Append(@, cv2_circle(x, y, r, color))]

\* frames.append(oled.display())
appendFrame(s) == [s EXCEPT !.frames = Append(@, s.img)]

\* for _ in range(n): frames.append(oled.display())
hold(s, n) == [s EXCEPT !.frames = @ \o [i \in 1..n |-> s.img]]

(***************************************************************************)
(* Drawing functions                                                       *)
(***************************************************************************)
drawEye(c, eye) ==
    LET x == eye.x - eye.w \div 2
        y == eye.y - eye.h \div 2
    IN  fillRoundRect(c, x, y, eye.w, eye.h, corner, WHITE)

drawEyes(s) ==
    LET c == drawEye(drawEye(clearDisplay, s.l), s.r)
    IN  [s EXCEPT !.img = c, !.frames = Append(@, c)]

centerEyes_left(s) ==
    [s EXCEPT !.l = [@ EXCEPT !.w = ref_w, !.h = ref_h, !.y = 32]]
centerEyes(s) ==
    [s EXCEPT !.l = [@ EXCEPT !.w = ref_w, !.h = ref_h, !.y = 32],
              !.r = [@ EXCEPT !.w = ref_w, !.h = ref_h, !.y = 32]]

\* both eyes' height changed by d, then rendered
addH(s, d) == [s EXCEPT !.l.h = @ + d, !.r.h = @ + d]

RECURSIVE blinkSteps(_, _, _)
blinkSteps(s, d, n) == IF n <= 0 THEN s ELSE blinkSteps(drawEyes(addH(s, d)), d, n - 1)

blink_short(s, speed) == blinkSteps(blinkSteps(centerEyes(s), 0 - speed, 3), speed, 2)
blink(s, speed) == blinkSteps(blinkSteps(centerEyes(s), 0 - speed, 3), speed, 3)

RECURSIVE happyLoop(_, _, _)
happyLoop(s, offset, n) ==
    IF n <= 0 THEN s
    ELSE LET s1 == fillTriangle(s, <<
                 <<s.l.x - ref_w \div 2, s.l.y + offset>>,
                 <<s.l.x + ref_w \div 2, s.l.y + offset + 6>>,
                 <<s.l.x - ref_w \div 2, s.l.y + ref_h + offset>> >>, BLACK)
             s2 == fillTriangle(s1, <<
                 <<s.r.x + ref_w \div 2, s.r.y + offset>>,
                 <<s.r.x - ref_w \div 2, s.r.y + offset + 6>>,
                 <<s.r.x + ref_w \div 2, s.r.y + ref_h + offset>> >>, BLACK)
         IN  happyLoop(appendFrame(s2), offset - 2, n - 1)

happyEye_nodraw(s) == happyLoop(centerEyes(s), ref_h \div 2, 10)
happyEye(s) == happyLoop(drawEyes(centerEyes(s)), ref_h \div 2, 10)

RECURSIVE sadLoop(_, _, _)
sadLoop(s, offset, n) ==
    IF n <= 0 THEN s
    ELSE LET l == s.l
             r == s.r
             s1 == fillTriangle(s, <<
                 <<l.x - l.w \div 2 - 1, l.y - offset>>,
                 <<l.x + l.w \div 2 + 1, l.y - 5 - offset>>,
                 <<l.x - l.w \div 2 - 1, l.y - 10 - offset>> >>, BLACK)
             s2 == fillTriangle(s1, <<
                 <<r.x + r.w \div 2 + 1, r.y - offset>>,
                 <<r.x - r.w \div 2 - 1, r.y - 5 - offset>>,
                 <<r.x + r.w \div 2 + 1, r.y - 10 - offset>> >>, BLACK)
             s3 == drawLine(s2, l.x - l.w \div 2 + 2, l.y + l.h \div 2,
                                l.x + l.w \div 2 - 2, l.y + l.h \div 2, BLACK)
             s4 == drawLine(s3, r.x - r.w \div 2 + 2, r.y + r.h \div 2,
                                r.x + r.w \div 2 - 2, r.y + r.h \div 2, BLACK)
         IN  sadLoop(appendFrame(s4), offset - 1, n - 1)

sadEye_redraw(s) == hold(drawEyes(sadLoop(drawEyes(centerEyes(s)), ref_h \div 2, 10)), 29)
sadEye(s) == hold(sadLoop(drawEyes(centerEyes(s)), ref_h \div 2, 10), 30)

RECURSIVE angryLoop(_, _, _)
angryLoop(s, offset, n) ==
    IF n <= 0 THEN s
    ELSE LET l == s.l
             r == s.r
             s1 == fillTriangle(s, <<
                 <<l.x - l.w \div 2 - 1, l.y - 10 - offset>>,
                 <<l.x + l.w \div 2 + 1, l.y - offset>>,
                 <<l.x + l.w \div 2 + 1, l.y - 10 - offset>> >>, BLACK)
             s2 == fillTriangle(s1, <<
                 <<r.x + r.w \div 2 + 1, r.y - 10 - offset>>,
                 <<r.x - r.w \div 2 - 1, r.y - offset>>,
                 <<r.x - r.w \div 2 - 1, r.y - 10 - offset>> >>, BLACK)
         IN  angryLoop(appendFrame(s2), offset - 1, n - 1)

angryEye(s) == hold(angryLoop(drawEyes(centerEyes(s)), ref_h \div 2, 10), 30)

RECURSIVE tiredLoop(_, _, _)
tiredLoop(s, offset, n) ==
    IF n <= 0 THEN s
    ELSE LET l == s.l
             r == s.r
             s1 == fillRect(s, l.x - l.w \div 2 - 1, l.y - offset, l.w + 2, l.h \div 3, BLACK)
             s2 == fillRect(s1, r.x - r.w \div 2 - 1, r.y - offset, r.w + 2, r.h \div 3, BLACK)
             s3 == drawLine(s2, l.x - l.w \div 2 + 2, l.y + l.h \div 2 + 2,
                                l.x - l.w \div 2 + 8, l.y + l.h \div 2 + 2, BLACK)
             s4 == drawLine(s3, r.x - r.w \div 2 + 2, r.y + r.h \div 2 + 2,
                                r.x - r.w \div 2 + 8, r.y + r.h \div 2 + 2, BLACK)
         IN  tiredLoop(appendFrame(s4), offset - 1, n - 1)

tiredEye(s) == hold(tiredLoop(drawEyes(centerEyes(s)), ref_h \div 2, 10), 30)

dx_amp == 8
dy_amp == 6
blink_amp == 8

\* one micro-movement of saccade: shift both eyes, change both heights
moveEyes(s, ddx, ddy, dh) ==
    [s EXCEPT !.l = [@ EXCEPT !.x = @ + ddx, !.y = @ + ddy, !.h = @ + dh],
              !.r = [@ EXCEPT !.x = @ + ddx, !.y = @ + ddy, !.h = @ + dh]]

saccade_noreopen(s, direction_x, direction_y) ==
    LET s1 == drawEyes(moveEyes(s, dx_amp * direction_x, dy_amp * direction_y, 0 - blink_amp))
        s2 == hold(s1, 2)
        s3 == drawEyes(moveEyes(s2, dx_amp * direction_x, dy_amp * direction_y, 0))
    IN  hold(s3, 3)
saccade(s, direction_x, direction_y) ==
    LET s1 == drawEyes(moveEyes(s, dx_amp * direction_x, dy_amp * direction_y, 0 - blink_amp))
        s2 == hold(s1, 2)
        s3 == drawEyes(moveEyes(s2, dx_amp * direction_x, dy_amp * direction_y, blink_amp))
    IN  hold(s3, 3)

glance(s, dx, dy) == drawEyes(centerEyes(saccade(s, dx, dy)))

\* directions[:n] of the shuffled list, one glance each
RECURSIVE glances(_, _)
glances(s, dirs) ==
    IF dirs = <<>> THEN s
    ELSE glances(glance(s, Head(dirs)[1], Head(dirs)[2]), Tail(dirs))

directions == << <<-1, 0>>, <<1, 0>>, <<0, -1>> >>

\* the outcomes of np.random.shuffle(directions): every ordering of the list
Shuffles(d) ==
    { <<d[p[1]], d[p[2]], d[p[3]]>> :
        p \in { q \in [1..3 -> 1..3] : \A i, j \in 1..3 : i # j => q[i] # q[j] } }

lookAround_repeat(s, shuffled, n) == glances(s, [i \in 1..n |-> shuffled[1]])
lookAround(s, shuffled, n) == glances(s, SubSeq(shuffled, 1, n))

RECURSIVE heartLoop(_, _, _, _)
heartLoop(s, size, grow, steps) ==
    IF grow >= steps THEN s
    ELSE LET lx == s.l.x
             ly == s.l.y
             rx == s.r.x
             ry == s.r.y
             s1 == fillCircle(s, lx - size \div 2 - grow, ly - size \div 2 - grow,
                              size \div 2 + grow, WHITE)
             s2 == fillCircle(s1, lx + size \div 2 + grow, ly - size \div 2 - grow,
                              size \div 2 + grow, WHITE)
             s3 == fillTriangle(s2, <<
                 <<lx - size - 1 - grow, ly - size \div 4 - grow>>,
                 <<lx + size + 1 + grow, ly - size \div 4 - grow>>,
                 <<lx, ly + size + 2 + grow>> >>, WHITE)
             s4 == fillCircle(s3, rx - size \div 2 - grow, ry - size \div 2 - grow,
                              size \div 2 + grow, WHITE)
             s5 == fillCircle(s4, rx + size \div 2 + grow, ry - size \div 2 - grow,
                              size \div 2 + grow, WHITE)
             s6 == fillTriangle(s5, <<
                 <<rx - size - 1 - grow, ry - size \div 4 - grow>>,
                 <<rx + size + 1 + grow, ry - size \div 4 - grow>>,
                 <<rx, ry + size + 2 + grow>> >>, WHITE)
         IN  heartLoop(appendFrame(s6), size, grow + 1, steps)

heart_eye_noclear(s) == hold(heartLoop([centerEyes(s) EXCEPT !.img = clearDisplay], 6, 0, 5), 36)
heart_eye(s) == hold(heartLoop(appendFrame([centerEyes(s) EXCEPT !.img = clearDisplay]), 6, 0, 5), 36)

setH(s, h) == [s EXCEPT !.l.h = h, !.r.h = h]

\* Step 1: for i in range(steps): h = ref_h - i * (ref_h // steps); drawEyes
RECURSIVE closeLoop(_, _, _)
closeLoop(s, i, steps) ==
    IF i >= steps THEN s
    ELSE closeLoop(drawEyes(setH(s, ref_h - i * (ref_h \div steps))), i + 1, steps)

\* Step 3: micro open (+4), 6 hold frames, micro close (-4), 12 hold frames
RECURSIVE microBlinks(_, _)
microBlinks(s, n) ==
    IF n <= 0 THEN s
    ELSE microBlinks(hold(drawEyes(addH(hold(drawEyes(addH(s, 4)), 6), 0 - 4)), 12), n - 1)

sleepingEye_nooverride(s) ==
    drawEyes(microBlinks(hold(closeLoop(centerEyes(s), 0, 10), 30), 3))
sleepingEye_noend(s) ==
    setH(microBlinks(hold(closeLoop(centerEyes(s), 0, 10), 30), 3), ref_h \div 6)
sleepingEye(s) ==
    drawEyes(setH(microBlinks(hold(closeLoop(centerEyes(s), 0, 10), 30), 3), ref_h \div 6))

(***************************************************************************)
(* run(expr): the Gradio callback.  A fresh OLED and an empty frame list   *)
(* per call; the eyes are the module-level dictionaries.                   *)
(***************************************************************************)
Exprs == {"center", "blink", "happy", "sad", "angry", "tired", "heart_eye",
          "look_left", "look_right", "look_up", "look_around", "sleeping"}

\* the script state run(expr) starts from, for eyes l and r
enter(l, r) == [l |-> l, r |-> r, img |-> clearDisplay, frames |-> <<>>]

\* run's dispatch; shuffled and n are the draws of lookAround
run(s, e, shuffled, n) ==
    CASE e = "center"      -> drawEyes(centerEyes(s))
      [] e = "blink"       -> blink(drawEyes(s), 8)
      [] e = "happy"       -> happyEye(s)
      [] e = "sad"         -> sadEye(s)
      [] e = "angry"       -> angryEye(s)
      [] e = "tired"       -> tiredEye(s)
      [] e = "heart_eye"   -> heart_eye(s)
      [] e = "look_left"   -> glance(s, -1, 0)
      [] e = "look_right"  -> glance(s, 1, 0)
      [] e = "look_up"     -> glance(s, 0, -1)
      [] e = "look_around" -> lookAround(s, shuffled, n)
      [] e = "sleeping"    -> sleepingEye(s)
      [] OTHER             -> s

\* frames_to_mp4(frames): what run's last line can end in.  imageio.mimsave
\* is a library call; handed no frame at all it either writes a file or
\* raises its own error, and the code of run raises nothing itself
frames_to_mp4(fr) == IF fr = <<>> THEN {"mp4", "mimsave_error"} ELSE {"mp4"}

\* identifiers outside the enumerated set that a caller may pass to run
UnknownExprs == {"wink", ""}

\* the eyes stay within MaxShift saccade amplitudes of their initial x
InRange(s) ==
    /\ s.l.x >= left_eye0.x - 2 * dx_amp * MaxShift
    /\ s.l.x <= left_eye0.x + 2 * dx_amp * MaxShift

Run(e, shuffled, n) ==
    LET s == run(enter(left_eye, right_eye), e, shuffled, n)
    IN  /\ InRange(s)
        /\ left_eye' = s.l
        /\ right_eye' = s.r
        /\ frames' = s.frames
        /\ expr' = e
        /\ outcome' \in frames_to_mp4(s.frames)
        /\ UNCHANGED codecVars
        /\ UNCHANGED emitVars

RunFixed(e) == e # "look_around" /\ Run(e, directions, 2)

\* run called with an identifier no branch of its if/elif chain matches
RunUnknown == \E e \in UnknownExprs : Run(e, directions, 2)

RunLookAround == \E shuffled \in Shuffles(directions) : \E n \in 2..3 :
                    Run("look_around", shuffled, n)

EyesInit ==
    /\ left_eye = left_eye0
    /\ right_eye = right_eye0
    /\ frames = <<>>
    /\ expr = "none"
    /\ outcome = "none"

NoResult == [fn |-> "none", status |-> "none", img |-> <<>>]

NotParsed == [status |-> "none", data |-> <<>>]

EmitIdle ==
    /\ frame_index = 0
    /\ text = <<>>
    /\ parsed = NotParsed

CodecIdle ==
    /\ img = <<>>
    /\ white_is_on = TRUE
    /\ data = <<>>
    /\ origin = "none"
    /\ decoded = NoResult

Init == EyesInit /\ CodecIdle /\ EmitIdle

Next ==
    \/ \E e \in Exprs : RunFixed(e)
    \/ RunLookAround
    \/ RunUnknown

Spec == Init /\ [][Next]_vars

(***************************************************************************)
(* conv3.py / conv.py : the XBM codec.  A raster is img[y][x] in {0, 255}  *)
(* (Image.getpixel on a mode "1" image); data is the byte list, data[i+1]  *)
(* being the Python data[i].                                               *)
(***************************************************************************)
WIDTH == 128
HEIGHT == 64
BYTES_EXPECTED == (WIDTH * HEIGHT) \div 8
ROW_BYTES == WIDTH \div 8

getpixel(im, x, y) == im[y][x]

\* 1 << bit
Shl1(bit) == 2 ^ bit

\* the inner loop of image_to_xbm_bytes (conv3.py), from bit on: the bits
\* are distinct, so byte |= (1 << bit) adds them
RECURSIVE packByte(_, _, _, _, _)
packByte(im, y, xb, white_on, bit) ==
    IF bit >= 8 THEN 0
    ELSE LET x == xb * 8 + bit
             px == getpixel(im, x, y)
             is_white == (px = 255)
             on == IF white_on THEN is_white ELSE ~is_white
         IN  (IF on THEN Shl1(bit) ELSE 0) + packByte(im, y, xb, white_on, bit + 1)

\* conv3.py image_to_xbm_bytes, for a raster that already is 128x64: the
\* byte for (y, xb) is appended as element y * ROW_BYTES + xb
image_to_xbm_bytes_msb(im, white_on) ==
    [i \in 1..(HEIGHT * ROW_BYTES) |->
        LET b == packByte(im, (i - 1) \div ROW_BYTES, (i - 1) % ROW_BYTES, white_on, 0)
        IN  (b % 2) * 128 + ((b \div 2) % 2) * 64 + ((b \div 4) % 2) * 32
            + ((b \div 8) % 2) * 16 + ((b \div 16) % 2) * 8 + ((b \div 32) % 2) * 4
            + ((b \div 64) % 2) * 2 + ((b \div 128) % 2)]
image_to_xbm_bytes(im, white_on) ==
    [i \in 1..(HEIGHT * ROW_BYTES) |->
        packByte(im, (i - 1) \div ROW_BYTES, (i - 1) % ROW_BYTES, white_on, 0)]

\* the inner loop of conv.py image_to_xbm_bytes
RECURSIVE packByte_conv(_, _, _, _)
packByte_conv(im, y, xb, bit) ==
    IF bit >= 8 THEN 0
    ELSE (IF getpixel(im, xb * 8 + bit, y) = 255 THEN Shl1(bit) ELSE 0)
         + packByte_conv(im, y, xb, bit + 1)

\* conv.py image_to_xbm_bytes (resize and convert("1") leave a 128x64
\* black/white raster as it is)
image_to_xbm_bytes_conv(im) ==
    [i \in 1..(HEIGHT * ROW_BYTES) |->
        packByte_conv(im, (i - 1) \div ROW_BYTES, (i - 1) % ROW_BYTES, 0)]

\* (byte & (1 << bit)) != 0
BitSet(byte, bit) == (byte \div Shl1(bit)) % 2 = 1

\* the two nested loops of the decoders: arr[y, x] from byte y*16 + x//8
unpack(d, on_is_white) ==
    [y \in 0..(HEIGHT - 1) |-> [x \in 0..(WIDTH - 1) |->
        LET byte == d[y * ROW_BYTES + x \div 8 + 1]
            is_on == BitSet(byte, x % 8)
        IN  IF on_is_white THEN (IF is_on THEN 255 ELSE 0)
            ELSE (IF is_on THEN 0 ELSE 255)]]

\* conv3.py xbm_bytes_to_image
xbm_bytes_to_image_nopolarity(d, on_is_white) ==
    IF Len(d) # BYTES_EXPECTED
    THEN [fn |-> "conv3", status |-> "ValueError", img |-> <<>>]
    ELSE [fn |-> "conv3", status |-> "ok", img |-> unpack(d, TRUE)]
xbm_bytes_to_image(d, on_is_white) ==
    IF Len(d) # BYTES_EXPECTED
    THEN [fn |-> "conv3", status |-> "ValueError", img |-> <<>>]
    ELSE [fn |-> "conv3", status |-> "ok", img |-> unpack(d, on_is_white)]

\* conv.py xbm_bytes_to_image: no length check; data[idx] raises IndexError
\* when the list ends early, and bytes past the 1024th are never read
xbm_bytes_to_image_conv(d) ==
    IF Len(d) < HEIGHT * ROW_BYTES
    THEN [fn |-> "conv", status |-> "IndexError", img |-> <<>>]
    ELSE [fn |-> "conv", status |-> "ok", img |-> unpack(d, TRUE)]

\* input rasters: a background colour with the pixels of F flipped
SamplePixels == { <<0, 0>>, <<7, 0>>, <<8, 0>>, <<127, 63>>, <<64, 32>> }
Raster(bg, F) ==
    [y \in 0..(HEIGHT - 1) |-> [x \in 0..(WIDTH - 1) |->
        IF <<x, y>> \in F THEN 255 - bg ELSE bg]]

InitCodec ==
    /\ EyesInit
    /\ \E bg \in {0, 255} : \E F \in SUBSET SamplePixels :
          Cardinality(F) <= MaxOn /\ img = Raster(bg, F)
    /\ white_is_on \in BOOLEAN
    /\ data = <<>>
    /\ origin = "none"
    /\ decoded = NoResult
    /\ EmitIdle

Encode3 ==
    /\ origin = "none"
    /\ data' = image_to_xbm_bytes(img, white_is_on)
    /\ origin' = "conv3"
    /\ decoded' = NoResult
    /\ UNCHANGED <<img, white_is_on>>
    /\ UNCHANGED eyeVars
    /\ UNCHANGED emitVars

EncodeConv ==
    /\ origin = "none"
    /\ data' = image_to_xbm_bytes_conv(img)
    /\ origin' = "conv"
    /\ decoded' = NoResult
    /\ UNCHANGED <<img, white_is_on>>
    /\ UNCHANGED eyeVars
    /\ UNCHANGED emitVars

\* a caller hands the decoder a list that lost its last byte
DropByte ==
    /\ origin # "none" /\ decoded = NoResult
    /\ Len(data) > BYTES_EXPECTED - MaxLenDelta
    /\ data' = SubSeq(data, 1, Len(data) - 1)
    /\ origin' = "edited"
    /\ decoded' = NoResult
    /\ UNCHANGED <<img, white_is_on>>
    /\ UNCHANGED eyeVars
    /\ UNCHANGED emitVars

\* a caller hands the decoder a list with one more byte
PadByte ==
    /\ origin # "none" /\ decoded = NoResult
    /\ Len(data) < BYTES_EXPECTED + MaxLenDelta
    /\ data' = Append(data, 255)
    /\ origin' = "edited"
    /\ decoded' = NoResult
    /\ UNCHANGED <<img, white_is_on>>
    /\ UNCHANGED eyeVars
    /\ UNCHANGED emitVars

Decode3 ==
    /\ origin # "none" /\ decoded = NoResult
    /\ decoded' = xbm_bytes_to_image(data, white_is_on)
    /\ UNCHANGED <<img, white_is_on, data, origin>>
    /\ UNCHANGED eyeVars
    /\ UNCHANGED emitVars

DecodeConv ==
    /\ origin # "none" /\ decoded = NoResult
    /\ decoded' = xbm_bytes_to_image_conv(data)
    /\ UNCHANGED <<img, white_is_on, data, origin>>
    /\ UNCHANGED eyeVars
    /\ UNCHANGED emitVars

\* one pipeline per input: encode the raster, optionally hand the list on
\* shortened or lengthened, decode it once
NextCodec ==
    \/ Encode3
    \/ EncodeConv
    \/ DropByte
    \/ PadByte
    \/ Decode3
    \/ DecodeConv

SpecCodec == InitCodec /\ [][NextCodec]_vars

\* pixel (x, y) of raster im is ON under the polarity
PixelOn(im, x, y, white_on) == IF white_on THEN im[y][x] = 255 ELSE im[y][x] = 0
NonUniform(im) == \E y \in 0..(HEIGHT - 1) : \E x \in 0..(WIDTH - 1) : im[y][x] # im[0][1]

\* C1: decoding with polarity p what image_to_xbm_bytes produced with
\* polarity p returns an image with exactly the pixel values of the raster.
C1_RoundTrip ==
    (origin = "conv3" /\ decoded.fn = "conv3") =>
        (decoded.status = "ok" /\ decoded.img = img)

C1_Witness ==
    /\ origin = "conv3" /\ decoded.fn = "conv3" /\ decoded.status = "ok"
    /\ ~white_is_on /\ NonUniform(img)

\* C2: encode returns 1024 values in 0..255; bit (x mod 8) of byte
\* y*16 + x div 8 is 1 exactly when pixel (x, y) is ON under the polarity
\* (conv.py: when it is white); one ON pixel at (0,0) gives byte 0 = 0x01
\* and zeros elsewhere, one ON pixel at (7,0) gives byte 0 = 0x80.
C2_BitLayout ==
    origin \in {"conv3", "conv"} =>
        LET p == IF origin = "conv3" THEN white_is_on ELSE TRUE
            off == IF p THEN 0 ELSE 255
        IN  /\ Len(data) = 1024
            /\ \A i \in 1..1024 : data[i] \in 0..255
            /\ \A y \in 0..63 : \A x \in 0..127 :
                  (((data[y * 16 + x \div 8 + 1] \div (2 ^ (x % 8))) % 2) = 1)
                      <=> PixelOn(img, x, y, p)
            /\ img = Raster(off, {<<0, 0>>}) =>
                  (data[1] = 1 /\ \A i \in 2..1024 : data[i] = 0)
            /\ img = Raster(off, {<<7, 0>>}) =>
                  (data[1] = 128 /\ \A i \in 2..1024 : data[i] = 0)

C2_Witness == origin = "conv3" /\ ~white_is_on /\ img = Raster(255, {<<7, 0>>}) /\ data[1] = 128

\* C3 (as claimed): every decoder fails with the length-mismatch error on
\* an input whose length is not 1024, and returns no image for it.
C3_LengthMismatch ==
    (decoded.fn # "none" /\ Len(data) # 1024) =>
        (decoded.status = "ValueError" /\ decoded.img = <<>>)

(***************************************************************************)
(* Reading a frame rendered by drawEyes: its first call draws the left     *)
(* eye's body from (x + corner, y) to (x + w - corner, y + h), its         *)
(* seventh the right eye's.                                                *)
(***************************************************************************)
IsEyesFrame(f) == Len(f) = 12 /\ f[1].op = "rectangle" /\ \A k \in 1..12 : f[k].color = WHITE
LeftH(f) == f[1].a[4] - f[1].a[2]
RightH(f) == f[7].a[4] - f[7].a[2]
BothH(f, h) == IsEyesFrame(f) /\ LeftH(f) = h /\ RightH(f) = h

\* the frame drawEyes renders for the canonical centered pose
CenterFrame == drawEyes(enter(left_eye0, right_eye0)).frames[1]
Canonical(l, r) == l = left_eye0 /\ r = right_eye0

\* the frames run(e) produces as the first call of a fresh process
FreshFrames(e) == run(enter(left_eye0, right_eye0), e, directions, 2).frames

\* C4 (as claimed): for every expression other than look_around, the frames
\* of run(e) after any earlier run calls equal the frames run(e) produces
\* as the first call of a fresh process.
C4_ResetBetweenCalls ==
    expr \in Exprs \ {"look_around"} => frames = FreshFrames(expr)

\* C5 (as claimed): a glance that starts from the canonical centered pose
\* renders its last frame at the canonical pose and leaves both eyes there.
C5_GlanceReturns ==
    [][ (Canonical(left_eye, right_eye) /\ expr' \in {"look_left", "look_right", "look_up"})
        => (Canonical(left_eye', right_eye') /\ frames'[Len(frames')] = CenterFrame) ]_vars

\* C6 (as claimed): the blink expression yields exactly 6 frames, 3
\* shrinking by the increment and 3 growing back to the starting height.
C6_BlinkSixFrames ==
    expr = "blink" =>
        /\ Len(frames) = 6
        /\ \A i \in 1..3 : BothH(frames[i], ref_h - 8 * i)
        /\ \A i \in 1..3 : BothH(frames[3 + i], ref_h - 24 + 8 * i)

\* C6 (amended): run("blink") yields 7 frames: one frame of the eyes as the
\* previous call left them, then the 6 frames of the blink script, heights
\* 32, 24, 16 and 24, 32, 40, the last one at ref_h again.
C6_BlinkFrames ==
    expr = "blink" =>
        /\ Len(frames) = 7
        /\ IsEyesFrame(frames[1])
        /\ \A i \in 1..3 : BothH(frames[1 + i], ref_h - 8 * i)
        /\ \A i \in 1..3 : BothH(frames[4 + i], ref_h - 24 + 8 * i)
        /\ BothH(frames[7], ref_h)
        /\ left_eye.h = ref_h /\ right_eye.h = ref_h

\* blink after sleeping: the extra first frame shows the closed eyes
C6_Witness == expr = "blink" /\ Len(frames) = 7 /\ BothH(frames[1], ref_h \div 6)

\* C7 (as claimed): happy and angry each yield exactly 10 frames.
C7_TenFrames == expr \in {"happy", "angry"} => Len(frames) = 10

\* C7 (amended): happy yields 11 frames (the centered eyes, then 10 eyelid
\* steps); angry yields 41 frames (the centered eyes, 10 brow steps, 30 hold
\* frames equal to the last brow step).
C7_HappyAngryFrames ==
    /\ expr = "happy" =>
        /\ Len(frames) = 11
        /\ BothH(frames[1], ref_h)
        /\ \A i \in 1..10 : Len(frames[1 + i]) = 12 + 2 * i
    /\ expr = "angry" =>
        /\ Len(frames) = 41
        /\ BothH(frames[1], ref_h)
        /\ \A i \in 1..10 : Len(frames[1 + i]) = 12 + 2 * i
        /\ \A i \in 12..41 : frames[i] = frames[11]

C7_Witness == expr = "angry" /\ Len(frames) = 41 /\ left_eye.x # left_eye0.x

\* C8 (as claimed): sad and tired each yield exactly 40 frames, 10 animated
\* and 30 hold frames identical to the 10th animated frame.
C8_FortyFrames ==
    expr \in {"sad", "tired"} =>
        /\ Len(frames) = 40
        /\ \A i \in 11..40 : frames[i] = frames[10]

\* C8 (amended): sad and tired each yield 41 frames: the centered eyes, 10
\* animated frames, then 30 hold frames identical to the 10th animated one.
C8_SadTiredFrames ==
    expr \in {"sad", "tired"} =>
        /\ Len(frames) = 41
        /\ BothH(frames[1], ref_h)
        /\ \A i \in 1..10 : Len(frames[1 + i]) = 12 + 4 * i
        /\ \A i \in 12..41 : frames[i] = frames[11]

C8_Witness == expr = "tired" /\ Len(frames) = 41 /\ frames[41] = frames[11]

\* C9 (as claimed): heart_eye yields exactly 41 frames.
C9_FortyOneFrames == expr = "heart_eye" => Len(frames) = 41

\* C9 (amended): heart_eye yields 42 frames: 1 cleared frame, 5 growth
\* frames, and 36 hold frames identical to the last growth frame.
C9_HeartFrames ==
    expr = "heart_eye" =>
        /\ Len(frames) = 42
        /\ frames[1] = <<>>
        /\ \A i \in 1..5 : Len(frames[1 + i]) = 6 * i
        /\ \A i \in 7..42 : frames[i] = frames[6]

C9_Witness == expr = "heart_eye" /\ Len(frames) = 42 /\ frames[1] = <<>>

\* C10 (as claimed): sleeping yields exactly 95 frames.
C10_NinetyFiveFrames == expr = "sleeping" => Len(frames) = 95

\* C10 (amended): sleeping yields 101 frames: 10 closing frames, 30 hold
\* frames, 3 micro-blink cycles of 1 + 6 + 1 + 12 frames, 1 final frame.
C10_SleepingFrames ==
    expr = "sleeping" =>
        /\ Len(frames) = 101
        /\ \A i \in 1..10 : IsEyesFrame(frames[i])
        /\ \A i \in 1..9 : frames[i + 1] # frames[i]
        /\ \A i \in 11..40 : frames[i] = frames[10]
        /\ \A c \in 0..2 :
            LET b == 40 + 20 * c
            IN  /\ BothH(frames[b + 1], LeftH(frames[10]) + 4)
                /\ \A i \in 2..7 : frames[b + i] = frames[b + 1]
                /\ BothH(frames[b + 8], LeftH(frames[10]))
                /\ \A i \in 9..20 : frames[b + i] = frames[b + 8]
        /\ IsEyesFrame(frames[101])
        /\ frames[101] # frames[100]

C10_Witness == expr = "sleeping" /\ Len(frames) = 101 /\ left_eye.h = ref_h \div 6

\* C11 (as claimed): run with an identifier outside the enumerated set fails
\* with an UnknownExpression error, never goes on with an empty frame
\* sequence, and leaves the eye geometry unchanged.
C11_UnknownExpression ==
    [][ (expr' \in UnknownExprs /\ eyeVars' # eyeVars) =>
            /\ outcome' = "UnknownExpression"
            /\ left_eye' = left_eye /\ right_eye' = right_eye ]_vars

(***************************************************************************)
(* The geometry a drawEyes frame was rendered with, eye k = 1 (left) or 7  *)
(* (right): fillRoundRect's first rectangle runs from (x + corner, y) to   *)
(* (x + w - corner, y + h) with x = eye.x - w // 2 and y = eye.y - h // 2. *)
(***************************************************************************)
EyeW(f, k) == f[k].a[3] - f[k].a[1] + 2 * corner
EyeH(f, k) == f[k].a[4] - f[k].a[2]
EyeX(f, k) == f[k].a[1] - corner + EyeW(f, k) \div 2
EyeY(f, k) == f[k].a[2] + EyeH(f, k) \div 2

\* frames[b+1 .. b+8] are one glance: 3 equal frames, 4 equal frames, and
\* a last render
IsGlanceBlock(fr, b) ==
    /\ \A i \in 1..8 : IsEyesFrame(fr[b + i])
    /\ fr[b + 2] = fr[b + 1] /\ fr[b + 3] = fr[b + 1]
    /\ fr[b + 5] = fr[b + 4] /\ fr[b + 6] = fr[b + 4] /\ fr[b + 7] = fr[b + 4]
    /\ fr[b + 4] # fr[b + 1]

\* the direction of the glance in frames[b+1 .. b+8]: its second movement
\* shifts the eyes by (8 * dx, 6 * dy)
GlanceDir(fr, b) ==
    << (EyeX(fr[b + 4], 1) - EyeX(fr[b + 1], 1)) \div 8,
       (EyeY(fr[b + 4], 1) - EyeY(fr[b + 1], 1)) \div 6 >>

\* C12: look_around performs 2 or 3 glances, each to the left, to the right
\* or up, no direction twice, and appends 8 frames per glance, nothing else.
C12_LookAround ==
    expr = "look_around" =>
        /\ Len(frames) \in {16, 24}
        /\ \A k \in 0..(Len(frames) \div 8 - 1) :
              /\ IsGlanceBlock(frames, 8 * k)
              /\ GlanceDir(frames, 8 * k) \in { <<-1, 0>>, <<1, 0>>, <<0, -1>> }
              /\ EyeX(frames[8 * k + 4], 1) - EyeX(frames[8 * k + 1], 1)
                    = 8 * GlanceDir(frames, 8 * k)[1]
              /\ EyeY(frames[8 * k + 4], 1) - EyeY(frames[8 * k + 1], 1)
                    = 6 * GlanceDir(frames, 8 * k)[2]
        /\ \A j, k \in 0..(Len(frames) \div 8 - 1) :
              j # k => GlanceDir(frames, 8 * j) # GlanceDir(frames, 8 * k)

\* three glances, the first of them upwards, after the eyes were closed
C12_Witness ==
    /\ expr = "look_around" /\ Len(frames) = 24
    /\ GlanceDir(frames, 0) = <<0, -1>>
    /\ EyeH(frames[1], 1) < 0

(***************************************************************************)
(* conv3.py : source emission.  A text is the sequence of its characters.  *)
(***************************************************************************)
\* the concatenation of the sequences ss[lo], ..., ss[hi], by halves
RECURSIVE FlattenRange(_, _, _)
FlattenRange(ss, lo, hi) ==
    IF lo > hi THEN <<>>
    ELSE IF lo = hi THEN ss[lo]
    ELSE LET mid == (lo + hi) \div 2
         IN  FlattenRange(ss, lo, mid) \o FlattenRange(ss, mid + 1, hi)

\* sep.join(parts)
Join(sep, parts) ==
    IF parts = <<>> THEN <<>>
    ELSE FlattenRange([i \in 1..(2 * Len(parts) - 1) |->
                          IF i % 2 = 1 THEN parts[(i + 1) \div 2] ELSE sep],
                      1, 2 * Len(parts) - 1)

UpperHex == <<"0", "1", "2", "3", "4", "5", "6", "7", "8", "9", "A", "B", "C", "D", "E", "F">>

\* f"0x{b:02X}" for a byte b
HexToken(b) == <<"0", "x", UpperHex[(b \div 16) + 1], UpperHex[(b % 16) + 1]>>

\* str(n) for n >= 0
RECURSIVE Digits(_)
Digits(n) == IF n < 10 THEN <<UpperHex[n + 1]>> ELSE Append(Digits(n \div 10), UpperHex[(n % 10) + 1])

\* f"{frame_index}"
Str(k) == IF k < 0 THEN <<"-">> \o Digits(0 - k) ELSE Digits(k)

DeclHead ==
    << "c", "o", "n", "s", "t", " ", "u", "n", "s", "i", "g", "n", "e",
       "d", " ", "c", "h", "a", "r", " ", "e", "p", "d", "_", "b", "i",
       "t", "m", "a", "p", "_" >>
DeclTail ==
    << " ", "[", "]", " ", "P", "R", "O", "G", "M", "E", "M", " ", "=",
       " ", "{", "\n" >>

\* "\t" + ", ".join(f"0x{b:02X}" for b in chunk) + ","  for data[i:i + 16]
ArrayLine(d, i) ==
    LET chunk == SubSeq(d, i + 1, IF i + 16 < Len(d) THEN i + 16 ELSE Len(d))
    IN  <<"\t">> \o Join(<<",", " ">>, [j \in 1..Len(chunk) |-> HexToken(chunk[j])]) \o <<",">>

\* for i in range(0, len(data), 16): one line per chunk
ArrayLines(d) == [j \in 1..((Len(d) + 15) \div 16) |-> ArrayLine(d, 16 * (j - 1))]

format_c_array_hexname(d, k) ==
    DeclHead \o <<"0", "x">> \o Str(k) \o DeclTail \o Join(<<"\n">>, ArrayLines(d)) \o <<"\n", "}", ";">>
format_c_array(d, k) ==
    DeclHead \o Str(k) \o DeclTail \o Join(<<"\n">>, ArrayLines(d)) \o <<"\n", "}", ";">>

DecDigits == {"0", "1", "2", "3", "4", "5", "6", "7", "8", "9"}
HexLetters == {"a", "b", "c", "d", "e", "f", "A", "B", "C", "D", "E", "F"}
IsHexChar(c) == c \in DecDigits \cup HexLetters

\* the value of one hexadecimal digit
HexVal(c) ==
    CASE c \in {"a", "A"} -> 10 [] c \in {"b", "B"} -> 11 [] c \in {"c", "C"} -> 12
      [] c \in {"d", "D"} -> 13 [] c \in {"e", "E"} -> 14 [] c \in {"f", "F"} -> 15
      [] OTHER -> CHOOSE n \in 0..9 : UpperHex[n + 1] = c

\* the length of the match of 0x[0-9a-fA-F]{1,2} at position i, 0 if none
HexMatchLen(txt, i) ==
    IF /\ i + 2 <= Len(txt)
       /\ txt[i] = "0" /\ txt[i + 1] = "x" /\ IsHexChar(txt[i + 2])
    THEN (IF i + 3 <= Len(txt) /\ IsHexChar(txt[i + 3]) THEN 4 ELSE 3)
    ELSE 0

\* int(h, 16) of the match at position i
HexMatchVal(txt, i) ==
    IF HexMatchLen(txt, i) = 4 THEN 16 * HexVal(txt[i + 2]) + HexVal(txt[i + 3])
    ELSE HexVal(txt[i + 2])

\* re.findall over positions lo..hi, the first skip of them already consumed
\* by a match: the values matched, left to right without overlap, and how
\* many positions after hi the last match consumes.  By halves.
RECURSIVE HexScan(_, _, _, _)
HexScan(txt, lo, hi, skip) ==
    IF lo > hi THEN [out |-> <<>>, skip |-> skip]
    ELSE IF lo = hi
    THEN IF skip > 0 THEN [out |-> <<>>, skip |-> skip - 1]
         ELSE IF HexMatchLen(txt, lo) > 0
              THEN [out |-> <<HexMatchVal(txt, lo)>>, skip |-> HexMatchLen(txt, lo) - 1]
              ELSE [out |-> <<>>, skip |-> 0]
    ELSE LET mid == (lo + hi) \div 2
             left == HexScan(txt, lo, mid, skip)
             right == HexScan(txt, mid + 1, hi, left.skip)
         IN  [out |-> left.out \o right.out, skip |-> right.skip]

\* [int(h, 16) for h in re.findall(r"0x[0-9a-fA-F]{1,2}", text)]
FindHexBytes(txt) == HexScan(txt, 1, Len(txt), 0).out

\* \w and \b of the regular expression, on the characters a text can hold
Letters == {"a", "b", "c", "d", "e", "f", "g", "h", "i", "j", "k", "l", "m", "n", "o",
            "p", "q", "r", "s", "t", "u", "v", "w", "x", "y", "z",
            "A", "B", "C", "D", "E", "F", "G", "H", "I", "J", "K", "L", "M", "N", "O",
            "P", "Q", "R", "S", "T", "U", "V", "W", "X", "Y", "Z", "_"}
IsWordChar(c) == c \in DecDigits \cup Letters
IsDigitAt(txt, i) == i >= 1 /\ i <= Len(txt) /\ txt[i] \in DecDigits
IsWordAt(txt, i) == i >= 1 /\ i <= Len(txt) /\ IsWordChar(txt[i])

\* the last position of the run of digits that starts at i
RunEnd(txt, i) ==
    CHOOSE j \in i..Len(txt) :
        (\A m \in i..j : IsDigitAt(txt, m)) /\ ~IsDigitAt(txt, j + 1)

\* int(n) of the digits at i..j
RECURSIVE DecVal(_, _, _)
DecVal(txt, i, j) ==
    IF j < i THEN 0 ELSE 10 * DecVal(txt, i, j - 1) + HexVal(txt[j])

\* [int(n) & 0xFF for n in re.findall(r"\b\d+\b", text)]: a match is a
\* maximal run of digits with no word character right before or after it
FindNumbers(txt) ==
    FlattenRange([i \in 1..Len(txt) |->
        IF /\ IsDigitAt(txt, i) /\ ~IsWordAt(txt, i - 1)
           /\ ~IsWordAt(txt, RunEnd(txt, i) + 1)
        THEN <<DecVal(txt, i, RunEnd(txt, i)) % 256>>
        ELSE <<>>], 1, Len(txt))

parse_c_array(txt) ==
    LET hex_bytes == FindHexBytes(txt)
        d == IF hex_bytes # <<>> THEN hex_bytes ELSE FindNumbers(txt)
    IN  IF Len(d) # BYTES_EXPECTED
        THEN [status |-> "ValueError", data |-> <<>>]
        ELSE [status |-> "ok", data |-> d]

\* the byte lists handed to format_c_array: 1024 bytes from b in steps of a
Pattern(a, b) == [i \in 1..BYTES_EXPECTED |-> (a * (i - 1) + b) % 256]

InitEmit ==
    /\ EyesInit
    /\ img = <<>>
    /\ white_is_on = TRUE
    /\ origin = "none"
    /\ decoded = NoResult
    /\ \/ \E a \in {0, 1, 17} : \E b \in 0..MaxOffset : data = Pattern(a, b)
       \/ data = <<>>
    /\ frame_index \in -1..MaxFrameIndex
    /\ text = <<>>
    /\ parsed = NotParsed

\* code = format_c_array(data, int(frame_index))
Format ==
    /\ text = <<>>
    /\ text' = format_c_array(data, frame_index)
    /\ UNCHANGED <<frame_index, parsed>>
    /\ UNCHANGED eyeVars
    /\ UNCHANGED codecVars

\* the emitted literal is pasted back in
Parse ==
    /\ text # <<>> /\ parsed = NotParsed
    /\ parsed' = parse_c_array(text)
    /\ UNCHANGED <<frame_index, text>>
    /\ UNCHANGED eyeVars
    /\ UNCHANGED codecVars

NextEmit ==
    \/ Format
    \/ Parse

SpecEmit == InitEmit /\ [][NextEmit]_vars

\* C13: parse_c_array(format_c_array(d, k)) returns d, for every list d of
\* 1024 bytes and every frame index k; the declaration adds no token.
C13_EmitRoundTrip ==
    (parsed # NotParsed /\ Len(data) = 1024) =>
        (parsed.status = "ok" /\ parsed.data = data)

C13_Witness ==
    /\ parsed.status = "ok" /\ frame_index = 0
    /\ data[11] = 10 /\ data[256] = 255

(***************************************************************************)
(* The scripts called on their own: saccade(oled, frames, dx, dy) on a     *)
(* fresh canvas and frame list, from whatever pose the eyes are in.        *)
(***************************************************************************)
\* the eyes stay within MaxShift saccade amplitudes of y = 32 as well
InRangeY(s) ==
    /\ s.l.y >= left_eye0.y - 2 * dy_amp * MaxShift
    /\ s.l.y <= left_eye0.y + 2 * dy_amp * MaxShift

CallSaccade(dx, dy) ==
    LET s == saccade(enter(left_eye, right_eye), dx, dy)
    IN  /\ InRange(s) /\ InRangeY(s)
        /\ left_eye' = s.l
        /\ right_eye' = s.r
        /\ frames' = s.frames
        /\ expr' = "saccade"
        /\ outcome' = "none"
        /\ UNCHANGED codecVars
        /\ UNCHANGED emitVars

\* sleeping and center give the saccades their entry heights, 6 and 40
NextScripts ==
    \/ \E e \in {"center", "sleeping"} : RunFixed(e)
    \/ \E dx, dy \in -1..1 : CallSaccade(dx, dy)

SpecScripts == Init /\ [][NextScripts]_vars

\* frame f shows eye k (1 left, 7 right) at centre (x, y) with height h
ShowsEye(f, k, x, y, h) ==
    IsEyesFrame(f) /\ EyeX(f, k) = x /\ EyeY(f, k) = y /\ EyeH(f, k) = h

\* C14: saccade(dx, dy) appends exactly 7 frames; frames 1-3 are identical
\* and show both eyes displaced by (8*dx, 6*dy) with the height reduced by
\* 8; frames 4-7 are identical and show them displaced by (16*dx, 12*dy)
\* with the entry height; on return the height is the entry height and the
\* position is displaced by (16*dx, 12*dy).
C14_Saccade ==
    [][ \A dx, dy \in -1..1 : CallSaccade(dx, dy) =>
          /\ Len(frames') = 7
          /\ frames'[2] = frames'[1] /\ frames'[3] = frames'[1]
          /\ ShowsEye(frames'[1], 1, left_eye.x + 8 * dx, left_eye.y + 6 * dy, left_eye.h - 8)
          /\ ShowsEye(frames'[1], 7, right_eye.x + 8 * dx, right_eye.y + 6 * dy, right_eye.h - 8)
          /\ frames'[5] = frames'[4] /\ frames'[6] = frames'[4] /\ frames'[7] = frames'[4]
          /\ ShowsEye(frames'[4], 1, left_eye.x + 16 * dx, left_eye.y + 12 * dy, left_eye.h)
          /\ ShowsEye(frames'[4], 7, right_eye.x + 16 * dx, right_eye.y + 12 * dy, right_eye.h)
          /\ left_eye' = [left_eye EXCEPT !.x = @ + 16 * dx, !.y = @ + 12 * dy]
          /\ right_eye' = [right_eye EXCEPT !.x = @ + 16 * dx, !.y = @ + 12 * dy] ]_vars

\* a saccade down and to the right with the eyes closed by sleeping: the
\* first three frames are rendered with height 6 - 8
C14_Witness ==
    /\ expr = "saccade" /\ Len(frames) = 7
    /\ left_eye.h = ref_h \div 6
    /\ EyeX(frames[4], 1) - EyeX(frames[1], 1) = 8
    /\ EyeY(frames[4], 1) - EyeY(frames[1], 1) = 6
    /\ EyeH(frames[1], 1) = ref_h \div 6 - 8

\* C15: sleeping closes the eyes in 10 steps with heights ref_h - i *
\* (ref_h / 10), i = 0..9; its last frame is rendered with both heights
\* forced to ref_h / 6, and that is the height sleeping returns with.
C15_SleepingHeights ==
    expr = "sleeping" =>
        /\ \A i \in 0..9 : BothH(frames[i + 1], ref_h - i * (ref_h \div 10))
        /\ BothH(frames[10], 4)
        /\ BothH(frames[Len(frames)], ref_h \div 6)
        /\ ref_h \div 6 = 6
        /\ BothH(frames[Len(frames) - 1], 4)
        /\ left_eye.h = ref_h \div 6 /\ right_eye.h = ref_h \div 6

\* sleeping called with the eyes off centre
C15_Witness ==
    /\ expr = "sleeping" /\ left_eye.x # left_eye0.x
    /\ BothH(frames[1], ref_h) /\ BothH(frames[Len(frames)], 6)

\* the frames of a list that drawEyes rendered
EyesFrames(fr) == { i \in 1..Len(fr) : IsEyesFrame(fr[i]) }

\* C16 (as claimed): every frame drawEyes renders, after any sequence of
\* run calls, shows both eyes with a height in 1..ref_h and width ref_w.
C16_HeightInRange ==
    \A i \in EyesFrames(frames) : \A k \in {1, 7} :
        /\ EyeH(frames[i], k) >= 1 /\ EyeH(frames[i], k) <= ref_h
        /\ EyeW(frames[i], k) = ref_w

\* C17: in every rendered frame, and in the geometry between calls, the two
\* eyes have the same height, width and vertical centre, and the right
\* eye's horizontal centre is ref_w + space to the right of the left eye's.
C17_EyesTogether ==
    /\ right_eye = [left_eye EXCEPT !.x = @ + ref_w + space]
    /\ \A i \in EyesFrames(frames) :
        /\ EyeH(frames[i], 7) = EyeH(frames[i], 1)
        /\ EyeW(frames[i], 7) = EyeW(frames[i], 1)
        /\ EyeY(frames[i], 7) = EyeY(frames[i], 1)
        /\ EyeX(frames[i], 7) = EyeX(frames[i], 1) + ref_w + space

\* a glance up with the eyes closed and off centre
C17_Witness ==
    /\ expr = "look_up" /\ left_eye.x # left_eye0.x
    /\ EyeH(frames[1], 1) < 0 /\ EyeY(frames[4], 1) = 32 - 12

====
